---- MODULE Spec2Model ----
(***************************************************************************)
(* A model of resampling.py: bin edges from pixel centers, the Box pixel   *)
(* density, the index mapper, the sparse resampling matrix builder with    *)
(* its row rescaling, the simple coadd, the Bolton-Schlegel                *)
(* diagonalization and the block tiling of coadd_data_broken.              *)
(*                                                                         *)
(* Numbers.  Coordinates are integers counted in half units: every pixel   *)
(* center is an even integer, so that 0.5*(a+b) and 0.5*(a-b) of two       *)
(* centers are integers and are computed exactly by \div 2.  Every other   *)
(* floating point value (indices, matrix entries, row sums, weights) is a  *)
(* record [n |-> numerator, d |-> denominator] in lowest terms with d > 0; *)
(* d = 0 holds the two non-finite values the code can produce by dividing  *)
(* by zero: [n |-> 1, d |-> 0] is +inf and [n |-> 0, d |-> 0] is NaN.      *)
(* Rounding error of the floating point operations is not modelled.        *)
(***************************************************************************)
EXTENDS Integers, Sequences, FiniteSets, TLC

VARIABLES pc, call, result

vars == <<pc, call, result>>

(***************************************************************************)
(* Bounds of the model.                                                    *)
(***************************************************************************)
\* pixel centers are drawn from the even integers 0, 2, ..., 2*MaxCoord
MaxCoord == 6
\* the longest grid
MaxLen == 5
\* the centers of an input grid of get_resampling_matrix and of simple_coadd
\* are drawn from 0, 2, ..., 2*MaxInCoord, and MaxInLen is the longest such grid
MaxInCoord == 5
MaxInLen == 3

(***************************************************************************)
(* Floating point values as exact fractions, with +inf and NaN.            *)
(***************************************************************************)
Abs(x) == IF x < 0 THEN -x ELSE x

Min(a, b) == IF a < b THEN a ELSE b

Max(a, b) == IF a > b THEN a ELSE b

\* F(v): a local of the code, bound to its value once
Bind(v, F(_)) == F(v)

RECURSIVE GCD(_, _)
GCD(a, b) == IF b = 0 THEN a ELSE GCD(b, a % b)

NaN == [n |-> 0, d |-> 0]

Inf == [n |-> 1, d |-> 0]

\* the fraction a/b of two integers, b # 0, in lowest terms
Frac(a, b) ==
    LET g == GCD(Abs(a), Abs(b))
        s == IF b < 0 THEN -1 ELSE 1
    IN  [n |-> s * (a \div g), d |-> s * (b \div g)]

R(a) == [n |-> a, d |-> 1]

Zero == R(0)

One == R(1)

IsFinite(x) == x.d # 0

IsNaN(x) == x = NaN

\* x + y; only non-negative infinities occur
FAdd(x, y) ==
    IF IsNaN(x) \/ IsNaN(y) THEN NaN
    ELSE IF x = Inf \/ y = Inf THEN Inf
    ELSE Frac(x.n * y.d + y.n * x.d, x.d * y.d)

FSub(x, y) ==
    IF IsNaN(x) \/ IsNaN(y) THEN NaN
    ELSE IF x = Inf /\ y = Inf THEN NaN
    ELSE IF x = Inf THEN Inf
    ELSE Frac(x.n * y.d - y.n * x.d, x.d * y.d)

FMul(x, y) ==
    IF IsNaN(x) \/ IsNaN(y) THEN NaN
    ELSE IF x = Inf \/ y = Inf
         THEN (IF x = Zero \/ y = Zero THEN NaN ELSE Inf)
    ELSE Frac(x.n * y.n, x.d * y.d)

\* x / y as numpy divides: x/0 is inf (NaN for 0/0), with a warning only
FDiv(x, y) ==
    IF IsNaN(x) \/ IsNaN(y) THEN NaN
    ELSE IF x = Inf THEN (IF y = Inf THEN NaN ELSE Inf)
    ELSE IF y = Inf THEN Zero
    ELSE IF y.n = 0 THEN (IF x.n = 0 THEN NaN ELSE Inf)
    ELSE Frac(x.n * y.d, x.d * y.n)

\* x < y; every comparison with NaN is false
FLt(x, y) ==
    IF IsNaN(x) \/ IsNaN(y) THEN FALSE
    ELSE IF x = Inf THEN FALSE
    ELSE IF y = Inf THEN TRUE
    ELSE x.n * y.d < y.n * x.d

FLe(x, y) == ~IsNaN(x) /\ ~IsNaN(y) /\ ~FLt(y, x)

RECURSIVE FSumTo(_, _)
\* f[1] + ... + f[k] of a sequence of values, added left to right
FSumTo(f, k) == IF k = 0 THEN Zero ELSE FAdd(FSumTo(f, k - 1), f[k])

FSum(f) == FSumTo(f, Len(f))

(***************************************************************************)
(* Grids: strictly increasing sequences of pixel centers.                  *)
(***************************************************************************)
Coords == {2 * k : k \in 0..MaxCoord}

RECURSIVE SortedSeq(_)
\* the elements of a finite set of integers in increasing order
SortedSeq(S) ==
    IF S = {} THEN <<>>
    ELSE LET m == CHOOSE x \in S : \A y \in S : x <= y
         IN  <<m>> \o SortedSeq(S \ {m})

GridsOver(C, maxlen) ==
    {SortedSeq(S) : S \in {T \in SUBSET C : Cardinality(T) >= 2 /\ Cardinality(T) <= maxlen}}

Grids == GridsOver(Coords, MaxLen)

\* the input grids of the matrix builder: the shorter ones
InGrids == GridsOver({2 * k : k \in 0..MaxInCoord}, MaxInLen)

StrictlyIncreasing(s) == \A i \in 1..(Len(s) - 1) : s[i] < s[i + 1]

(***************************************************************************)
(* centers_to_bins (sequences are 1-based: bins[i] here is bins[i-1] of    *)
(* the code).                                                              *)
(***************************************************************************)
centers_to_bins_first_mirrored(coord_centers) ==
    IF Len(coord_centers) = 0 THEN <<>>
    ELSE
    LET N == Len(coord_centers)
        mid == [i \in 2..N |-> (coord_centers[i] + coord_centers[i - 1]) \div 2]
    IN  [i \in 1..(N + 1) |->
            IF i = 1 THEN coord_centers[1] + (mid[2] - coord_centers[1])
            ELSE IF i = N + 1
                 THEN coord_centers[N] + (coord_centers[N] - coord_centers[N - 1]) \div 2
            ELSE mid[i]]

centers_to_bins(coord_centers) ==
    IF Len(coord_centers) = 0 THEN <<>>
    ELSE
    LET N == Len(coord_centers)
        mid == [i \in 2..N |-> (coord_centers[i] + coord_centers[i - 1]) \div 2]
    IN  [i \in 1..(N + 1) |->
            IF i = 1 THEN coord_centers[1] - (mid[2] - coord_centers[1])
            ELSE IF i = N + 1
                 THEN coord_centers[N] + (coord_centers[N] - coord_centers[N - 1]) \div 2
            ELSE mid[i]]

(***************************************************************************)
(* The calls.  call holds the function called and its arguments, pc is     *)
(* "call" until the function has run and "return" after, and result is     *)
(* what it returned.                                                       *)
(***************************************************************************)
Init_centers_to_bins ==
    /\ pc = "call"
    /\ \E c \in Grids \cup {<<>>} : call = [fn |-> "centers_to_bins", coord_centers |-> c]
    /\ result = <<>>

Run_centers_to_bins ==
    /\ pc = "call"
    /\ call.fn = "centers_to_bins"
    /\ result' = [bins |-> centers_to_bins(call.coord_centers)]
    /\ pc' = "return"
    /\ UNCHANGED call

NextBins == Run_centers_to_bins

SpecBins == Init_centers_to_bins /\ [][NextBins]_vars

Returned(fn) == pc = "return" /\ call.fn = fn

\* C8: for N >= 2 strictly increasing centers, centers_to_bins returns N+1
\* strictly increasing edges, every interior edge is the midpoint of its two
\* neighbouring centers and every center lies strictly between its two edges;
\* an empty input returns an empty output.
C8_BinsBracketCenters ==
    Returned("centers_to_bins") =>
        LET c == call.coord_centers
            b == result.bins
            N == Len(c)
        IN  IF N = 0 THEN b = <<>>
            ELSE /\ Len(b) = N + 1
                 /\ StrictlyIncreasing(b)
                 /\ \A i \in 2..N : 2 * b[i] = c[i - 1] + c[i]
                 /\ \A i \in 1..N : b[i] < c[i] /\ c[i] < b[i + 1]

C8_Witness ==
    /\ Returned("centers_to_bins")
    /\ Len(call.coord_centers) >= 3
    /\ \E i \in 2..(Len(call.coord_centers) - 1) :
          call.coord_centers[i + 1] - call.coord_centers[i]
              # call.coord_centers[i] - call.coord_centers[i - 1]

C8_WitnessEmpty == Returned("centers_to_bins") /\ call.coord_centers = <<>>

(***************************************************************************)
(* map_indicies.  interp1d is scipy's linear interpolator built with       *)
(* bounds_error = False: NaN outside [x[0], x[-1]], and inside it the      *)
(* segment is found by searchsorted (the number of knots below the query)  *)
(* clipped to 1..len-1.  The knot values are arange(len(x)).               *)
(***************************************************************************)
\* the queries: integers in half units, on and between and beyond the centers
QueryCoords == (0 - 3)..(2 * MaxCoord + 3)

interp1d(x, x_new) ==
    LET n == Len(x)
    IN  IF x_new < x[1] \/ x_new > x[n] THEN NaN
        ELSE LET below == Cardinality({k \in 1..n : x[k] < x_new})
                 hi == Min(Max(below, 1), n - 1)
                 lo == hi - 1
                 \* knots lo and hi of the code are x[lo + 1] and x[hi + 1] here
                 slope == Frac(hi - lo, x[hi + 1] - x[lo + 1])
             IN  FAdd(FMul(slope, R(x_new - x[lo + 1])), R(lo))

map_indicies_one_slope(input_coordinates, target_coordinates) ==
    LET n == Len(target_coordinates)
        target_min == target_coordinates[1]
        target_max == target_coordinates[n]
        start_slope == Frac(1, target_coordinates[2] - target_coordinates[1])
        end_slope == Frac(1, target_coordinates[2] - target_coordinates[1])
    IN  [i \in 1..Len(input_coordinates) |->
            Bind(interp1d(target_coordinates, input_coordinates[i]), LAMBDA v :
                LET q == input_coordinates[i]
                IN  IF IsNaN(v) /\ q >= target_max
                    THEN FAdd(FMul(end_slope, R(q - target_max)), R(n - 1))
                    ELSE IF IsNaN(v) /\ q <= target_min
                    THEN FMul(start_slope, R(q - target_min))
                    ELSE v)]

map_indicies(input_coordinates, target_coordinates) ==
    LET n == Len(target_coordinates)
        target_min == target_coordinates[1]
        target_max == target_coordinates[n]
        start_slope == Frac(1, target_coordinates[2] - target_coordinates[1])
        end_slope == Frac(1, target_coordinates[n] - target_coordinates[n - 1])
    IN  [i \in 1..Len(input_coordinates) |->
            Bind(interp1d(target_coordinates, input_coordinates[i]), LAMBDA v :
                LET q == input_coordinates[i]
                IN  \* the loop over upper_point_idxs runs last
                    IF IsNaN(v) /\ q >= target_max
                    THEN FAdd(FMul(end_slope, R(q - target_max)), R(n - 1))
                    ELSE IF IsNaN(v) /\ q <= target_min
                    THEN FMul(start_slope, R(q - target_min))
                    ELSE v)]

Init_map_indicies ==
    /\ pc = "call"
    /\ \E t \in Grids, q1 \in QueryCoords, q2 \in QueryCoords :
          call = [fn |-> "map_indicies", input_coordinates |-> <<q1, q2>>,
                  target_coordinates |-> t]
    /\ result = <<>>

Run_map_indicies ==
    /\ pc = "call"
    /\ call.fn = "map_indicies"
    /\ result' = [output_indicies |->
                      map_indicies(call.input_coordinates, call.target_coordinates)]
    /\ pc' = "return"
    /\ UNCHANGED call

NextMap == Run_map_indicies

SpecMap == Init_map_indicies /\ [][NextMap]_vars

\* v = a / b for a value v and integers a, b with b > 0
IsQuotient(v, a, b) == IsFinite(v) /\ v.n * b = a * v.d

\* C5: map_indicies returns, for each query q in order, the piecewise-linear
\* interpolated index k + (q - t[k]) / (t[k+1] - t[k]) when q lies in a segment
\* [t[k], t[k+1]] of the target (so a target coordinate t[k] maps to k),
\* (q - t[0]) / (t[1] - t[0]) below the target and
\* (n-1) + (q - t[n-1]) / (t[n-1] - t[n-2]) above it, for every n >= 2.
C5_MapIndicies ==
    Returned("map_indicies") =>
        LET t == call.target_coordinates
            qs == call.input_coordinates
            out == result.output_indicies
            n == Len(t)
        IN  /\ Len(out) = Len(qs)
            /\ \A i \in 1..Len(qs) :
                  LET q == qs[i]
                  IN  /\ \A k \in 1..(n - 1) :
                            (t[k] <= q /\ q <= t[k + 1]) =>
                                IsQuotient(FSub(out[i], R(k - 1)), q - t[k], t[k + 1] - t[k])
                      /\ \A k \in 1..n : q = t[k] => out[i] = R(k - 1)
                      /\ q < t[1] => IsQuotient(out[i], q - t[1], t[2] - t[1])
                      /\ q > t[n] =>
                            IsQuotient(FSub(out[i], R(n - 1)), q - t[n], t[n] - t[n - 1])

\* a query above and a query below a target whose first and last spacings differ
C5_Witness ==
    /\ Returned("map_indicies")
    /\ LET t == call.target_coordinates
           n == Len(t)
       IN  /\ n >= 3
           /\ t[2] - t[1] # t[n] - t[n - 1]
           /\ call.input_coordinates[1] > t[n]
           /\ call.input_coordinates[2] < t[1]

\* a target of two centers, one query on a center and one strictly inside
C5_WitnessTwo ==
    /\ Returned("map_indicies")
    /\ Len(call.target_coordinates) = 2
    /\ call.input_coordinates[1] = call.target_coordinates[2]
    /\ call.input_coordinates[2] > call.target_coordinates[1]
    /\ call.input_coordinates[2] < call.target_coordinates[2]

(***************************************************************************)
(* Box_Density.  An index is 0-based as in the code; bins is the 1-based   *)
(* sequence centers_to_bins returned, so bins[index] of the code is        *)
(* bins[index + 1] here.                                                   *)
(***************************************************************************)
Box_get_density_integral_unclipped(bins, index, coord) ==
    LET clb == bins[index + 1]
        cub == bins[index + 2]
    IN  IF clb > coord THEN Zero
        ELSE Frac(coord - clb, cub - clb)

Box_get_density_integral(bins, index, coord) ==
    LET clb == bins[index + 1]
        cub == bins[index + 2]
    IN  IF clb > coord THEN Zero
        ELSE IF cub < coord THEN One
        ELSE Frac(coord - clb, cub - clb)

integrate_swapped(bins, index, lb, ub) ==
    FSub(Box_get_density_integral(bins, index, lb),
         Box_get_density_integral(bins, index, ub))

\* Density.integrate
integrate(bins, index, lb, ub) ==
    FSub(Box_get_density_integral(bins, index, ub),
         Box_get_density_integral(bins, index, lb))

Box_get_coordinate_density_range(bins, index) == <<bins[index + 1], bins[index + 2]>>

(***************************************************************************)
(* get_resampling_matrix: the index walk.                                  *)
(***************************************************************************)
\* np.around: to the nearest integer, a half to the even neighbour
around(x) ==
    LET fl == x.n \div x.d
        twice == 2 * (x.n % x.d)
    IN  IF twice < x.d THEN fl
        ELSE IF twice > x.d THEN fl + 1
        ELSE IF fl % 2 = 0 THEN fl ELSE fl + 1

\* central_index_vals, a 1-based sequence over the output pixels
central_index_vals(input_centers, output_centers) ==
    Bind(map_indicies(output_centers, input_centers), LAMBDA m :
        [o \in 1..Len(output_centers) |-> around(m[o])])

\* available_idxs: the central indices clipped to 0..n_in-1
available_idxs(input_centers, output_centers) ==
    Bind(central_index_vals(input_centers, output_centers), LAMBDA civ :
        [o \in 1..Len(output_centers) |->
            IF civ[o] < 0 THEN 0
            ELSE IF civ[o] < Len(input_centers) THEN civ[o]
            ELSE Len(input_centers) - 1])

\* the locals set before the loop over out_idx
matrix_context(input_centers, output_centers) ==
    Bind(central_index_vals(input_centers, output_centers), LAMBDA civ :
    Bind(available_idxs(input_centers, output_centers), LAMBDA avail :
    Bind(centers_to_bins(output_centers), LAMBDA ob :
    Bind(centers_to_bins(input_centers), LAMBDA ib :
        [n_in |-> Len(input_centers),
         n_out |-> Len(output_centers),
         input_centers |-> input_centers,
         output_bins |-> SubSeq(ob, 1, Len(ob)),
         input_bins |-> SubSeq(ib, 1, Len(ib)),
         central_index_vals |-> SubSeq(civ, 1, Len(civ)),
         available_idxs |-> SubSeq(avail, 1, Len(avail))]))))

\* the locals of one pass of the loop over out_idx (0-based)
row_context(mx, out_idx) ==
    LET prev == mx.available_idxs[Max(0, out_idx - 1) + 1]
        next == mx.available_idxs[Min(mx.n_out - 1, out_idx + 1) + 1]
    IN  [out_idx |-> out_idx,
         n_in |-> mx.n_in,
         input_centers |-> mx.input_centers,
         input_bins |-> mx.input_bins,
         central_in_idx |-> mx.central_index_vals[out_idx + 1],
         c_output_lb |-> mx.output_bins[out_idx + 1],
         c_output_ub |-> mx.output_bins[out_idx + 2],
         c_input_lb |-> Box_get_coordinate_density_range(mx.input_bins, prev)[1],
         c_input_ub |-> Box_get_coordinate_density_range(mx.input_bins, next)[2],
         sharp_ub |-> mx.input_bins[next + 2],
         sharp_lb |-> mx.input_bins[prev + 1]]

\* what the three append calls add for input pixel c_in_idx
entry(cx, c_in_idx) ==
    [row |-> cx.out_idx, col |-> c_in_idx,
     val |-> integrate(cx.input_bins, c_in_idx, cx.c_output_lb, cx.c_output_ub)]

RECURSIVE walk_up(_, _)
\* the "above diagonal" while loop from idx_delta on: the entries it appends
walk_up(cx, idx_delta) ==
    LET c_in_idx == cx.central_in_idx + idx_delta
    IN  IF 0 <= c_in_idx
        THEN IF c_in_idx < cx.n_in
             THEN IF cx.input_centers[c_in_idx + 1] > cx.c_input_ub
                  THEN <<entry(cx, c_in_idx)>>
                  ELSE <<entry(cx, c_in_idx)>> \o walk_up(cx, idx_delta + 1)
             ELSE <<>>
        ELSE walk_up(cx, idx_delta + 1)

RECURSIVE walk_down_from_center(_, _)
\* the downward walk started on the central pixel instead of the one below it
walk_down_from_center(cx, idx_delta) ==
    LET c_in_idx == cx.central_in_idx - idx_delta + 1
    IN  IF c_in_idx < cx.n_in
        THEN IF c_in_idx >= 0
             THEN IF cx.input_centers[c_in_idx + 1] < cx.c_input_lb
                  THEN <<entry(cx, c_in_idx)>>
                  ELSE <<entry(cx, c_in_idx)>> \o walk_down_from_center(cx, idx_delta + 1)
             ELSE <<>>
        ELSE walk_down_from_center(cx, idx_delta + 1)

RECURSIVE walk_down(_, _)
\* the "below diagonal" while loop from idx_delta on
walk_down(cx, idx_delta) ==
    LET c_in_idx == cx.central_in_idx - idx_delta
    IN  IF c_in_idx < cx.n_in
        THEN IF c_in_idx >= 0
             THEN IF cx.input_centers[c_in_idx + 1] < cx.c_input_lb
                  THEN <<entry(cx, c_in_idx)>>
                  ELSE <<entry(cx, c_in_idx)>> \o walk_down(cx, idx_delta + 1)
             ELSE <<>>
        ELSE walk_down(cx, idx_delta + 1)

\* one pass of the loop over out_idx: the entries appended for that row
row_entries(mx, out_idx) ==
    Bind(row_context(mx, out_idx), LAMBDA cx :
        IF 0 <= cx.central_in_idx /\ cx.central_in_idx < cx.n_in
        THEN <<entry(cx, cx.central_in_idx)>> \o walk_up(cx, 1) \o walk_down(cx, 1)
        ELSE IF cx.c_output_lb > cx.sharp_ub \/ cx.c_output_ub < cx.sharp_lb
             THEN <<>>
             ELSE walk_up(cx, 1) \o walk_down(cx, 1))

RECURSIVE all_entries_from(_, _)
all_entries_from(mx, out_idx) ==
    IF out_idx >= mx.n_out THEN <<>>
    ELSE row_entries(mx, out_idx) \o all_entries_from(mx, out_idx + 1)

\* all_row_idxs, all_col_idxs and all_matrix_vals after the loop
all_entries(input_centers, output_centers) ==
    all_entries_from(matrix_context(input_centers, output_centers), 0)

(***************************************************************************)
(* Sparse matrices: a record of the shape and the stored entries.          *)
(* coo_matrix sums the entries that share a place (tocsr, todense and the  *)
(* products do); a place with no stored entry is 0.                        *)
(***************************************************************************)
RECURSIVE SumAt(_, _, _, _)
\* the sum of the values of entries[1..k] stored at (row, col)
SumAt(entries, k, row, col) ==
    IF k = 0 THEN Zero
    ELSE IF entries[k].row = row /\ entries[k].col = col
         THEN FAdd(SumAt(entries, k - 1, row, col), entries[k].val)
         ELSE SumAt(entries, k - 1, row, col)

\* the dense matrix, rows 0..n_rows-1 and columns 0..n_cols-1
todense(entries, n_rows, n_cols) ==
    [i \in 0..(n_rows - 1) |-> [j \in 0..(n_cols - 1) |-> SumAt(entries, Len(entries), i, j)]]

RECURSIVE DotTo(_, _, _)
\* row[0]*v[0] + ... + row[k-1]*v[k-1]
DotTo(row, v, k) ==
    IF k = 0 THEN Zero ELSE FAdd(DotTo(row, v, k - 1), FMul(row[k - 1], v[k - 1]))

\* a dense matrix times a vector (both 0-based)
matvec(m, v, n_rows, n_cols) == [i \in 0..(n_rows - 1) |-> DotTo(m[i], v, n_cols)]

ones(n) == [j \in 0..(n - 1) |-> One]

(***************************************************************************)
(* get_resampling_matrix: the row rescaling.  Vectors over the output      *)
(* pixels are functions on 0..n_out-1.                                     *)
(***************************************************************************)
\* a Python index into a sequence of length n: a negative one counts from the end
PyIdx(i, n) == IF i < 0 THEN i + n ELSE i

RECURSIVE nz_delta_loop(_, _, _, _)
\* the while loop that widens nz_delta, entered with center_delta computed for
\* nz_delta: reading output_centers[first_nz + nz_delta] beyond the end raises,
\* and the except clause steps nz_delta back
nz_delta_loop(output_centers, first_nz, width_delta, nz_delta) ==
    LET center_delta == Abs(output_centers[first_nz + nz_delta + 1] - output_centers[first_nz + 1])
    IN  IF center_delta < width_delta
        THEN IF first_nz + nz_delta + 1 >= Len(output_centers)
             THEN nz_delta
             ELSE nz_delta_loop(output_centers, first_nz, width_delta, nz_delta + 1)
        ELSE nz_delta

RECURSIVE rescale_loop(_, _, _, _, _, _)
\* the loop "for nzd in xrange(nz_delta+1)" from nzd on, applied to row_rescale
rescale_loop(row_rescale, row_sum, first_nz, last_nz, nz_delta, nzd) ==
    IF nzd > nz_delta THEN row_rescale
    ELSE LET n_out == Cardinality(DOMAIN row_sum)
             lead == FDiv(row_sum[first_nz + nz_delta], row_sum[first_nz + nzd])
             trail == FDiv(row_sum[PyIdx(last_nz - nz_delta, n_out)],
                           row_sum[PyIdx(last_nz - nzd, n_out)])
             r1 == [row_rescale EXCEPT ![first_nz + nzd] = lead]
             r2 == [r1 EXCEPT ![PyIdx(last_nz - nzd, n_out)] = trail]
         IN  rescale_loop(r2, row_sum, first_nz, last_nz, nz_delta, nzd + 1)

\* row_rescale as the "if upweight_ends" block leaves it
upweight_rescale(input_centers, output_centers, row_sum) ==
    LET n_out == Len(output_centers)
        nz_pts == {i \in 0..(n_out - 1) : row_sum[i] # Zero}
    IN  IF Cardinality(nz_pts) > 3
        THEN LET first_nz == CHOOSE i \in nz_pts : \A k \in nz_pts : i <= k
                 last_nz == CHOOSE i \in nz_pts : \A k \in nz_pts : i >= k
             IN  Bind(Box_get_coordinate_density_range(
                          centers_to_bins(input_centers),
                          available_idxs(input_centers, output_centers)[first_nz + 1]),
                      LAMBDA rng :
                 Bind(nz_delta_loop(output_centers, first_nz, rng[2] - rng[1], 1),
                      LAMBDA nz_delta :
                 rescale_loop(ones(n_out), row_sum, first_nz, last_nz, nz_delta, 0)))
        ELSE ones(n_out)

\* row_rescale as the "if preserve_normalization" block sets it
normalization_rescale(row_sum) ==
    [i \in DOMAIN row_sum |->
        FDiv(One, IF FLt(Zero, row_sum[i]) THEN row_sum[i] ELSE One)]

get_row_rescale_upweight_wins(input_centers, output_centers, row_sum, preserve_normalization, upweight_ends) ==
    IF upweight_ends THEN upweight_rescale(input_centers, output_centers, row_sum)
    ELSE IF preserve_normalization THEN normalization_rescale(row_sum)
    ELSE ones(Len(output_centers))

\* row_rescale before dia_trans is built
get_row_rescale(input_centers, output_centers, row_sum, preserve_normalization, upweight_ends) ==
    LET upweighted == IF upweight_ends
                      THEN upweight_rescale(input_centers, output_centers, row_sum)
                      ELSE ones(Len(output_centers))
    IN  IF preserve_normalization THEN normalization_rescale(row_sum) ELSE upweighted

\* whether the walk stored an entry at (row, col)
Stored(entries, row, col) ==
    \E k \in 1..Len(entries) : entries[k].row = row /\ entries[k].col = col

\* get_resampling_matrix with the default Box density: the matrix returned
\* (trans, dense, 0-based) and the locals it was built from
get_resampling_matrix(input_centers, output_centers, preserve_normalization, upweight_ends) ==
    LET n_in == Len(input_centers)
        n_out == Len(output_centers)
    IN  Bind(all_entries(input_centers, output_centers), LAMBDA entries :
        Bind(todense(entries, n_out, n_in), LAMBDA coo :
        Bind(matvec(coo, ones(n_in), n_out, n_in), LAMBDA row_sum :
        Bind(get_row_rescale(input_centers, output_centers, row_sum,
                             preserve_normalization, upweight_ends), LAMBDA row_rescale :
            [n_in |-> n_in,
             n_out |-> n_out,
             entries |-> entries,
             row_sum |-> row_sum,
             row_rescale |-> row_rescale,
             \* dia_trans*trans multiplies the stored entries of a row by its factor
             trans |-> [i \in 0..(n_out - 1) |-> [j \in 0..(n_in - 1) |->
                          IF Stored(entries, i, j) THEN FMul(row_rescale[i], coo[i][j])
                          ELSE Zero]]]))))

\* a call with the Box density and no row rescaling
Init_plain ==
    /\ pc = "call"
    /\ \E ic \in InGrids, oc \in Grids :
          call = [fn |-> "get_resampling_matrix", input_centers |-> ic,
                  output_centers |-> oc, preserve_normalization |-> FALSE,
                  upweight_ends |-> FALSE]
    /\ result = <<>>

\* a call with preserve_normalization, with and without upweight_ends
Init_normalized ==
    /\ pc = "call"
    /\ \E ic \in InGrids, oc \in Grids, ue \in BOOLEAN :
          call = [fn |-> "get_resampling_matrix", input_centers |-> ic,
                  output_centers |-> oc, preserve_normalization |-> TRUE,
                  upweight_ends |-> ue]
    /\ result = <<>>

Run_get_resampling_matrix ==
    /\ pc = "call"
    /\ call.fn = "get_resampling_matrix"
    /\ result' = get_resampling_matrix(call.input_centers, call.output_centers,
                                       call.preserve_normalization, call.upweight_ends)
    /\ pc' = "return"
    /\ UNCHANGED call

NextResample == Run_get_resampling_matrix

SpecPlain == Init_plain /\ [][NextResample]_vars

SpecNormalized == Init_normalized /\ [][NextResample]_vars

(***************************************************************************)
(* What the matrix is meant to hold.                                       *)
(***************************************************************************)
\* the part of input bin j that lies in output bin i, over the input bin's width
OverlapFraction(input_centers, output_centers, i, j) ==
    LET ib == centers_to_bins(input_centers)
        ob == centers_to_bins(output_centers)
        lo == Max(ib[j + 1], ob[i + 1])
        hi == Min(ib[j + 2], ob[i + 2])
    IN  Frac(Max(0, hi - lo), ib[j + 2] - ib[j + 1])

RowSum(m, i, n_cols) == DotTo(m[i], ones(n_cols), n_cols)

PlainCall ==
    /\ Returned("get_resampling_matrix")
    /\ ~call.preserve_normalization
    /\ ~call.upweight_ends

\* C1 (as claimed): with no rescaling every entry T[i,j] is the fraction of input
\* bin j inside output bin i, first and last rows and unvisited pairs included.
C1_EntriesAreOverlapFractions ==
    PlainCall =>
        \A i \in 0..(result.n_out - 1), j \in 0..(result.n_in - 1) :
            result.trans[i][j] = OverlapFraction(call.input_centers, call.output_centers, i, j)

\* the width of output bin i and of the narrowest input bin
OutputBinWidth(output_centers, i) ==
    centers_to_bins(output_centers)[i + 2] - centers_to_bins(output_centers)[i + 1]

MinInputBinWidth(input_centers) ==
    LET ib == centers_to_bins(input_centers)
        widths == {ib[j + 1] - ib[j] : j \in 1..Len(input_centers)}
    IN  CHOOSE w \in widths : \A v \in widths : w <= v

\* C2 (as claimed): with no rescaling every row sum of the matrix is at most 1,
\* output grids coarser than the input grid included.
C2_RowSumsAtMostOne ==
    PlainCall =>
        \A i \in 0..(result.n_out - 1) : FLe(RowSum(result.trans, i, result.n_in), One)

\* C2 (amended): with no rescaling the sum of row i is at most the width of
\* output bin i over the width of the narrowest input bin, hence at most 1 for
\* every output bin that is no wider than the narrowest input bin.
C2_RowSumBoundedByWidthRatio ==
    PlainCall =>
        \A i \in 0..(result.n_out - 1) :
            LET rs == RowSum(result.trans, i, result.n_in)
                ow == OutputBinWidth(call.output_centers, i)
                mw == MinInputBinWidth(call.input_centers)
            IN  /\ FLe(Zero, rs)
                /\ FLe(FMul(rs, R(mw)), R(ow))
                /\ ow <= mw => FLe(rs, One)

\* a narrow output bin with a row sum of exactly 1 beside a wide one above 1
C2_Witness ==
    /\ PlainCall
    /\ \E i \in 0..(result.n_out - 1) :
          /\ OutputBinWidth(call.output_centers, i) <= MinInputBinWidth(call.input_centers)
          /\ RowSum(result.trans, i, result.n_in) = One
    /\ \E i \in 0..(result.n_out - 1) : FLt(One, RowSum(result.trans, i, result.n_in))

Init_identical_grids ==
    /\ pc = "call"
    /\ \E g \in Grids :
          call = [fn |-> "get_resampling_matrix", input_centers |-> g,
                  output_centers |-> g, preserve_normalization |-> FALSE,
                  upweight_ends |-> TRUE]
    /\ result = <<>>

SpecIdentity == Init_identical_grids /\ [][NextResample]_vars

\* C4: for identical input and output grids and the default arguments the matrix
\* is the identity: 1 on the diagonal, 0 elsewhere (the stored off-diagonal
\* entries of the walk included), and the edge upweighting changes no row.
C4_IdenticalGridsGiveIdentity ==
    (Returned("get_resampling_matrix") /\ call.input_centers = call.output_centers) =>
        /\ \A i \in 0..(result.n_out - 1), j \in 0..(result.n_in - 1) :
              result.trans[i][j] = IF i = j THEN One ELSE Zero
        /\ \A k \in 1..Len(result.entries) :
              result.entries[k].row # result.entries[k].col => result.entries[k].val = Zero
        /\ result.row_rescale = ones(result.n_out)

\* more than 3 rows (the upweighting block runs), uneven spacing, and the walk
\* stored entries off the diagonal
C4_Witness ==
    /\ Returned("get_resampling_matrix")
    /\ call.input_centers = call.output_centers
    /\ call.upweight_ends
    /\ Len(call.input_centers) > 3
    /\ \E i \in 2..(Len(call.input_centers) - 1) :
          call.input_centers[i + 1] - call.input_centers[i]
              # call.input_centers[i] - call.input_centers[i - 1]
    /\ \E k \in 1..Len(result.entries) : result.entries[k].row # result.entries[k].col

(***************************************************************************)
(* get_transformed_covariances and simple_coadd.  The products are sparse: *)
(* a zero of a factor is not stored (dia_matrix and the csr product drop   *)
(* zeros), so it adds nothing to a sum even against a NaN, while a NaN is  *)
(* stored and spreads.                                                     *)
(***************************************************************************)
SparseMul(x, y) == IF x = Zero \/ y = Zero THEN Zero ELSE FMul(x, y)

RECURSIVE CovTo(_, _, _, _)
\* the sum over j < k of rowi[j] * variance[j] * rowk[j]
CovTo(rowi, variance, rowk, k) ==
    IF k = 0 THEN Zero
    ELSE FAdd(CovTo(rowi, variance, rowk, k - 1),
              SparseMul(SparseMul(rowi[k - 1], variance[k - 1]), rowk[k - 1]))

\* transform_matrix * diag(input_covariance) * transform_matrix^T for a 1-d
\* input_covariance and fill_variance = 0
get_transformed_covariances(transform_matrix, input_covariance, n_out, n_in) ==
    [i \in 0..(n_out - 1) |-> [k \in 0..(n_out - 1) |->
        CovTo(transform_matrix[i], input_covariance, transform_matrix[k], n_in)]]

VecAdd(a, b) == [i \in DOMAIN a |-> FAdd(a[i], b[i])]

MatAdd(a, b) == [i \in DOMAIN a |-> [k \in DOMAIN a[i] |-> FAdd(a[i][k], b[i][k])]]

\* output_flux /= one_trans + (one_trans == 0)
guarded_divide(output_flux, one_trans) ==
    [i \in DOMAIN output_flux |->
        FDiv(output_flux[i], FAdd(one_trans[i], IF one_trans[i] = Zero THEN One ELSE Zero))]

\* two orders on the same grid with unit flux and unit variance
Init_simple_coadd ==
    /\ pc = "call"
    /\ \E ic \in InGrids, oc \in Grids :
          call = [fn |-> "simple_coadd",
                  data_wvs |-> <<ic, ic>>,
                  data_flux |-> <<ones(Len(ic)), ones(Len(ic))>>,
                  data_covar |-> <<ones(Len(ic)), ones(Len(ic))>>,
                  output_wvs |-> oc]
    /\ result = <<>>

\* the accumulators after the first order
first_order(trans, flux, covar, n_out, n_in) ==
    [output_flux |-> matvec(trans, flux, n_out, n_in),
     output_covar |-> get_transformed_covariances(trans, covar, n_out, n_in),
     one_trans |-> VecAdd([i \in 0..(n_out - 1) |-> Zero],
                          matvec(trans, ones(n_in), n_out, n_in)),
     order_idx |-> 1]

\* the accumulators after one more order
next_order(acc, trans, flux, covar, n_out, n_in) ==
    [output_flux |-> VecAdd(acc.output_flux, matvec(trans, flux, n_out, n_in)),
     output_covar |-> MatAdd(acc.output_covar,
                             get_transformed_covariances(trans, covar, n_out, n_in)),
     one_trans |-> VecAdd(acc.one_trans, matvec(trans, ones(n_in), n_out, n_in)),
     order_idx |-> acc.order_idx + 1]

\* "do the first order by hand"
simple_coadd_first ==
    /\ pc = "call"
    /\ call.fn = "simple_coadd"
    /\ result' = first_order(
                     get_resampling_matrix(call.data_wvs[1], call.output_wvs,
                                           FALSE, TRUE).trans,
                     call.data_flux[1], call.data_covar[1],
                     Len(call.output_wvs), Len(call.data_wvs[1]))
    /\ pc' = "loop"
    /\ UNCHANGED call

\* one pass of "for order_idx in range(1, len(data_wvs))"
simple_coadd_order ==
    /\ pc = "loop"
    /\ call.fn = "simple_coadd"
    /\ result.order_idx < Len(call.data_wvs)
    /\ result' = next_order(
                     result,
                     get_resampling_matrix(call.data_wvs[result.order_idx + 1],
                                           call.output_wvs, TRUE, TRUE).trans,
                     call.data_flux[result.order_idx + 1],
                     call.data_covar[result.order_idx + 1],
                     Len(call.output_wvs), Len(call.data_wvs[result.order_idx + 1]))
    /\ UNCHANGED <<pc, call>>

\* the guarded division and the return
simple_coadd_finish ==
    /\ pc = "loop"
    /\ call.fn = "simple_coadd"
    /\ result.order_idx >= Len(call.data_wvs)
    /\ result' = [result EXCEPT !.output_flux = guarded_divide(result.output_flux,
                                                                result.one_trans)]
    /\ pc' = "return"
    /\ UNCHANGED call

NextCoadd == simple_coadd_first \/ simple_coadd_order \/ simple_coadd_finish

SpecCoadd == Init_simple_coadd /\ [][NextCoadd]_vars

\* the dense product T * diag(variance) * T^T, each term multiplied out
TransformedCovariance(T, variance, n_out, n_in, i, k) ==
    FSum([j \in 1..n_in |-> FMul(FMul(T[i][j - 1], variance[j - 1]), T[k][j - 1])])

\* C6 (as claimed): the coadd of two identical orders with unit flux and unit
\* variance has flux exactly 1 on every output pixel with non-zero accumulated
\* coverage and exactly 0, never NaN or inf, on every pixel with zero coverage,
\* and its covariance is the sum of the two transformed covariances, the first
\* with the edge-upweighted matrix and the second with the normalized one.
C6_CoaddOfIdenticalOrders ==
    Returned("simple_coadd") =>
        LET n_in == Len(call.data_wvs[1])
            n_out == Len(call.output_wvs)
            T1 == get_resampling_matrix(call.data_wvs[1], call.output_wvs, FALSE, TRUE).trans
            T2 == get_resampling_matrix(call.data_wvs[2], call.output_wvs, TRUE, FALSE).trans
        IN  /\ \A i \in 0..(n_out - 1) :
                  /\ IsFinite(result.output_flux[i])
                  /\ result.output_flux[i] = IF result.one_trans[i] # Zero THEN One ELSE Zero
            /\ \A i \in 0..(n_out - 1), k \in 0..(n_out - 1) :
                  result.output_covar[i][k] =
                      FAdd(TransformedCovariance(T1, call.data_covar[1], n_out, n_in, i, k),
                           TransformedCovariance(T2, call.data_covar[2], n_out, n_in, i, k))

(***************************************************************************)
(* coadd_data_broken.  What the model keeps of the data is what decides    *)
(* the control flow of one block: whether any order has more than one     *)
(* point inside the block's span (len(ac_idxs) > 0) and whether the right  *)
(* hand side has more than one non-zero entry.  Both are inputs of the     *)
(* block step.  The local solution of a solved block is taken as the unit  *)
(* spectrum.                                                               *)
(***************************************************************************)
\* largest output grid length, block size and block overlap explored
MaxNOut == 8

MaxBlockSize == 5

\* the first index of a[lo:hi] on an array of length n
SliceStart(lo, n) == IF lo < 0 THEN Max(lo + n, 0) ELSE Min(lo, n)

\* len(a[lo:hi]) on an array of length n
SliceLen(lo, hi, n) == Max(SliceStart(hi, n) - SliceStart(lo, n), 0)

\* np.linspace(start, stop, num)[k]
linspace(start, stop, num, k) ==
    IF num = 1 THEN R(start) ELSE FAdd(R(start), Frac(k * (stop - start), num - 1))

output_blocks(n_out, block_size, block_overlap) ==
    LET step_size == block_size - block_overlap
        n_blocks == (n_out \div step_size) + 1
    IN  [bi \in 1..n_blocks |->
            IF bi < n_blocks
            THEN <<step_size * (bi - 1), Min(n_out, step_size * (bi - 1) + block_size)>>
            ELSE <<n_out - block_size, n_out>>]

\* output_alpha after the two ramp assignments and the squaring; the second
\* assignment overrides the first where the ramps meet
output_alpha(block_size, block_overlap) ==
    [k \in 0..(block_size - 1) |->
        LET ramp == IF k >= block_size - block_overlap
                    THEN linspace(1, 0, block_overlap, k - (block_size - block_overlap))
                    ELSE IF k < block_overlap
                         THEN linspace(0, 1, block_overlap, k)
                         ELSE One
        IN  FMul(ramp, ramp)]

\* what one pass of the block loop does, given the two facts about the data
block_outcome(n_out, block_size, block_overlap, cl_idx, cu_idx, survive, solve) ==
    LET n_block == SliceLen(cl_idx, cu_idx, n_out)
    IN  IF cl_idx < 0 - n_out THEN "IndexError"      \* output_wvs[cl_idx]
        ELSE IF ~survive THEN "continue"
        ELSE IF n_block < 2 THEN "IndexError"        \* centers_to_bins(out_block_wvs)
        ELSE IF n_block # block_size THEN "ValueError"   \* concat_data[lb:ub] = c_data[...]
        ELSE IF ~solve THEN "unsolved"
        ELSE IF block_overlap = 0 THEN "ValueError"  \* output_alpha[-0:] = linspace(1, 0, 0)
        ELSE "stitched"

Init_coadd_data_broken ==
    /\ pc = "call"
    /\ \E n \in 1..MaxNOut, bs \in 1..MaxBlockSize, bo \in 0..MaxBlockSize :
          call = [fn |-> "coadd_data_broken", n_out |-> n,
                  block_size |-> bs, block_overlap |-> bo]
    /\ result = <<>>

\* "coadd_error: overlap must be less than block size!"
cdb_reject ==
    /\ pc = "call"
    /\ call.fn = "coadd_data_broken"
    /\ call.block_overlap >= call.block_size
    /\ result' = [value |-> "None"]
    /\ pc' = "return"
    /\ UNCHANGED call

\* the warning branch, the two zero arrays and the list of blocks
cdb_setup ==
    /\ pc = "call"
    /\ call.fn = "coadd_data_broken"
    /\ call.block_overlap < call.block_size
    /\ result' = [warned |-> call.block_overlap <= 2,
                  output_data |-> [i \in 0..(call.n_out - 1) |-> Zero],
                  output_weight_sum |-> [i \in 0..(call.n_out - 1) |-> Zero],
                  output_blocks |-> output_blocks(call.n_out, call.block_size,
                                                  call.block_overlap),
                  block_idx |-> 0,
                  solved |-> 0]
    /\ pc' = "blocks"
    /\ UNCHANGED call

InBlockLoop ==
    /\ pc = "blocks"
    /\ call.fn = "coadd_data_broken"
    /\ result.block_idx < Len(result.output_blocks)

OutcomeOfBlock(survive, solve) ==
    LET blk == result.output_blocks[result.block_idx + 1]
    IN  block_outcome(call.n_out, call.block_size, call.block_overlap,
                      blk[1], blk[2], survive, solve)

\* a block that leaves the accumulators alone: no order survives, or the
\* right hand side has fewer than two non-zero entries
cdb_block_skip ==
    /\ InBlockLoop
    /\ \E survive \in BOOLEAN : OutcomeOfBlock(survive, FALSE) \in {"continue", "unsolved"}
    /\ result' = [result EXCEPT !.block_idx = @ + 1]
    /\ UNCHANGED <<pc, call>>

\* a block that is solved and stitched into the accumulators
cdb_block_stitch ==
    /\ InBlockLoop
    /\ OutcomeOfBlock(TRUE, TRUE) = "stitched"
    /\ LET blk == result.output_blocks[result.block_idx + 1]
           lo == SliceStart(blk[1], call.n_out)
           hi == SliceStart(blk[2], call.n_out)
           alpha == output_alpha(call.block_size, call.block_overlap)
           add(acc) == [i \in 0..(call.n_out - 1) |->
                           IF lo <= i /\ i < hi THEN FAdd(acc[i], alpha[i - lo]) ELSE acc[i]]
       IN  result' = [result EXCEPT !.output_data = add(@),
                                    !.output_weight_sum = add(@),
                                    !.block_idx = @ + 1,
                                    !.solved = @ + 1]
    /\ UNCHANGED <<pc, call>>

\* a block in which an index or an array assignment fails
cdb_block_raise ==
    /\ InBlockLoop
    /\ \E survive \in BOOLEAN, solve \in BOOLEAN :
          /\ OutcomeOfBlock(survive, solve) \in {"IndexError", "ValueError"}
          /\ result' = [result EXCEPT !.block_idx = @ + 1] @@
                       [exception |-> OutcomeOfBlock(survive, solve)]
    /\ pc' = "raise"
    /\ UNCHANGED call

\* output_data /= output_weight_sum + (output_weight_sum <= 0)
cdb_finish ==
    /\ pc = "blocks"
    /\ call.fn = "coadd_data_broken"
    /\ result.block_idx >= Len(result.output_blocks)
    /\ result' = [result EXCEPT !.output_data =
                      [i \in 0..(call.n_out - 1) |->
                          FDiv(result.output_data[i],
                               FAdd(result.output_weight_sum[i],
                                    IF FLe(result.output_weight_sum[i], Zero)
                                    THEN One ELSE Zero))]] @@
                 [value |-> "output_data"]
    /\ pc' = "return"
    /\ UNCHANGED call

NextBlocks ==
    \/ cdb_reject
    \/ cdb_setup
    \/ cdb_block_skip
    \/ cdb_block_stitch
    \/ cdb_block_raise
    \/ cdb_finish

SpecBlocks == Init_coadd_data_broken /\ [][NextBlocks]_vars

\* C7 (as claimed): with block_overlap >= block_size the call is rejected and
\* nothing is built, allocated or returned; with block_overlap <= 2 and
\* block_overlap < block_size the warning is all that happens, the blockwise
\* coadd runs through and what it returns is the output array.
C7_RejectOrWarnAndRun ==
    call.fn = "coadd_data_broken" =>
        /\ (call.block_overlap >= call.block_size /\ pc # "call")
              => (pc = "return" /\ result = [value |-> "None"])
        /\ (call.block_overlap < call.block_size /\ call.block_overlap <= 2 /\ pc # "call")
              => /\ result.warned
                 /\ pc # "raise"
                 /\ pc = "return" => result.value = "output_data"

\* C10 (as claimed): for every n_out >= 1 and 0 <= block_overlap < block_size
\* the list output_blocks is a tiling: each block (lo, hi) has
\* 0 <= lo < hi <= n_out and hi - lo = block_size, and every output index
\* lies in some block.
C10_OutputBlocksTile ==
    (call.fn = "coadd_data_broken" /\ pc = "blocks") =>
        /\ \A b \in 1..Len(result.output_blocks) :
              LET lo == result.output_blocks[b][1]
                  hi == result.output_blocks[b][2]
              IN  /\ 0 <= lo
                  /\ lo < hi
                  /\ hi <= call.n_out
                  /\ hi - lo = call.block_size
        /\ \A i \in 0..(call.n_out - 1) :
              \E b \in 1..Len(result.output_blocks) :
                  /\ result.output_blocks[b][1] <= i
                  /\ i < result.output_blocks[b][2]

(***************************************************************************)
(* Bolton_Schlegel_Diagonalization on a diagonal covariance.  The second   *)
(* statement calls the module np.linalg, which is not callable, so the     *)
(* statements after it are never reached.                                  *)
(***************************************************************************)
\* largest matrix size explored
MaxDim == 3

FluxValues == {0 - 1, 0, 1}

VarianceValues == {0, 1, 2}

\* a dense matrix with the given diagonal
diag(v, n) == [i \in 0..(n - 1) |-> [j \in 0..(n - 1) |-> IF i = j THEN v[i] ELSE Zero]]

identity(n) == diag(ones(n), n)

\* np.linalg.pinv of a diagonal matrix: the non-zero diagonal entries are
\* inverted, the zeros stay
pinv_diagonal(m, n) ==
    [i \in 0..(n - 1) |-> [j \in 0..(n - 1) |->
        IF i = j /\ m[i][j] # Zero THEN FDiv(One, m[i][j]) ELSE Zero]]

Init_Bolton_Schlegel_Diagonalization ==
    /\ pc = "call"
    /\ \E n \in 1..MaxDim :
          \E f \in [0..(n - 1) -> FluxValues], v \in [0..(n - 1) -> VarianceValues] :
              call = [fn |-> "Bolton_Schlegel_Diagonalization",
                      n |-> n,
                      flux |-> [i \in 0..(n - 1) |-> R(f[i])],
                      covariance |-> diag([i \in 0..(n - 1) |-> R(v[i])], n)]
    /\ result = <<>>

\* invcov = np.linalg.pinv(covariance)
BSD_pinv ==
    /\ pc = "call"
    /\ call.fn = "Bolton_Schlegel_Diagonalization"
    /\ result' = [invcov |-> pinv_diagonal(call.covariance, call.n)]
    /\ pc' = "eig"
    /\ UNCHANGED call

\* evecs, evals = np.linalg(invcov)
BSD_eig ==
    /\ pc = "eig"
    /\ call.fn = "Bolton_Schlegel_Diagonalization"
    /\ result' = result @@ [exception |-> "TypeError"]
    /\ pc' = "raise"
    /\ UNCHANGED call

NextDiagonalization == BSD_pinv \/ BSD_eig

SpecDiagonalization == Init_Bolton_Schlegel_Diagonalization /\ [][NextDiagonalization]_vars

\* C9 (as claimed): Bolton_Schlegel_Diagonalization on an identity covariance
\* completes, and what it returns is the identity as rotmat, a rot_norm of all
\* ones and the input flux as newflux.
C9_IdentityCovarianceGivesIdentity ==
    (call.fn = "Bolton_Schlegel_Diagonalization" /\ call.covariance = identity(call.n)) =>
        /\ pc # "raise"
        /\ pc = "return" => /\ result.rotmat = identity(call.n)
                            /\ result.rot_norm = ones(call.n)
                            /\ result.newflux = call.flux

(***************************************************************************)
(* get_resampling_matrix with upweight_ends and no normalization.          *)
(***************************************************************************)
Init_upweighted ==
    /\ pc = "call"
    /\ \E ic \in InGrids, oc \in Grids :
          call = [fn |-> "get_resampling_matrix", input_centers |-> ic,
                  output_centers |-> oc, preserve_normalization |-> FALSE,
                  upweight_ends |-> TRUE]
    /\ result = <<>>

SpecUpweighted == Init_upweighted /\ [][NextResample]_vars

UpweightedCall ==
    /\ Returned("get_resampling_matrix")
    /\ ~call.preserve_normalization
    /\ call.upweight_ends

\* the rows with a non-zero row sum, the first and the last of them
NzPts(row_sum) == {i \in DOMAIN row_sum : row_sum[i] # Zero}

FirstNz(row_sum) == CHOOSE i \in NzPts(row_sum) : \A k \in NzPts(row_sum) : i <= k

LastNz(row_sum) == CHOOSE i \in NzPts(row_sum) : \A k \in NzPts(row_sum) : i >= k

\* the number of rows in each run: the nz_delta the width loop ends with
RunLength(input_centers, output_centers, row_sum) ==
    LET rng == Box_get_coordinate_density_range(
                   centers_to_bins(input_centers),
                   available_idxs(input_centers, output_centers)[FirstNz(row_sum) + 1])
    IN  nz_delta_loop(output_centers, FirstNz(row_sum), rng[2] - rng[1], 1)

\* row i of the result is row i of plain times one finite positive factor and
\* its sum is target
RescaledTo(plain, i, target) ==
    /\ IsFinite(result.row_rescale[i])
    /\ FLt(Zero, result.row_rescale[i])
    /\ \A j \in 0..(result.n_in - 1) :
          result.trans[i][j] = FMul(result.row_rescale[i], plain[i][j])
    /\ RowSum(result.trans, i, result.n_in) = target

\* C11 (as claimed): with upweight_ends and no normalization, when more than 3
\* rows have a non-zero row sum, every row of the leading run (from the first
\* non-zero row) and of the trailing run (up to the last non-zero row) is its
\* old self times a finite positive factor and sums to the old row sum of the
\* row just interior to its run, and every other row is as without
\* upweight_ends; with 3 or fewer non-zero rows no row is rescaled.
C11_EdgeRunsMatchInteriorRow ==
    UpweightedCall =>
        LET plain == get_resampling_matrix(call.input_centers, call.output_centers,
                                           FALSE, FALSE).trans
            row_sum == result.row_sum
        IN  IF Cardinality(NzPts(row_sum)) > 3
            THEN LET first_nz == FirstNz(row_sum)
                     last_nz == LastNz(row_sum)
                     nz_delta == RunLength(call.input_centers, call.output_centers, row_sum)
                     leading == first_nz..(first_nz + nz_delta - 1)
                     trailing == (last_nz - nz_delta + 1)..last_nz
                 IN  /\ \A i \in leading : RescaledTo(plain, i, row_sum[first_nz + nz_delta])
                     /\ \A i \in trailing : RescaledTo(plain, i, row_sum[last_nz - nz_delta])
                     /\ \A i \in (0..(result.n_out - 1)) \ (leading \cup trailing) :
                           result.trans[i] = plain[i]
            ELSE result.trans = plain

\* C12 (as claimed): when the local solve of every block of coadd_data_broken
\* was executed, every output index, the first and the last included, has a
\* strictly positive accumulated weight after the stitching, so that the
\* final division leaves no pixel with a block solution at the fallback 0.
C12_WeightsPositiveWhenAllSolved ==
    (Returned("coadd_data_broken") /\ call.block_overlap < call.block_size
        /\ result.solved = Len(result.output_blocks)) =>
        \A i \in 0..(call.n_out - 1) :
            /\ FLt(Zero, result.output_weight_sum[i])
            /\ result.output_data[i] # Zero

(***************************************************************************)
(* The entries the index walk emits, with no row rescaling.                *)
(***************************************************************************)
ColumnSum(m, j, n_rows) == FSum([i \in 1..n_rows |-> m[i - 1][j]])

\* C13: with the Box density and no row rescaling the walks end, no (row,
\* column) pair is emitted twice, every emitted column is in 0..n_in-1, every
\* entry is between 0 and 1, and every column of the matrix sums to at most 1;
\* output centers outside the input range included.
C13_WalkEmitsEachPairOnce ==
    PlainCall =>
        /\ \A k \in 1..Len(result.entries), l \in 1..Len(result.entries) :
              (result.entries[k].row = result.entries[l].row
                  /\ result.entries[k].col = result.entries[l].col) => k = l
        /\ \A k \in 1..Len(result.entries) :
              /\ result.entries[k].row \in 0..(result.n_out - 1)
              /\ result.entries[k].col \in 0..(result.n_in - 1)
              /\ FLe(Zero, result.entries[k].val)
              /\ FLe(result.entries[k].val, One)
        /\ \A i \in 0..(result.n_out - 1), j \in 0..(result.n_in - 1) :
              FLe(Zero, result.trans[i][j]) /\ FLe(result.trans[i][j], One)
        /\ \A j \in 0..(result.n_in - 1) :
              FLe(ColumnSum(result.trans, j, result.n_out), One)

\* a row whose unclipped central index is negative and one whose central index
\* is n_in or more, both with entries from the walk, and a column that sums
\* to exactly 1 over more than one row
C13_Witness ==
    /\ PlainCall
    /\ \E o \in 1..result.n_out :
          /\ central_index_vals(call.input_centers, call.output_centers)[o] < 0
          /\ \E j \in 0..(result.n_in - 1) : Stored(result.entries, o - 1, j)
    /\ \E o \in 1..result.n_out :
          /\ central_index_vals(call.input_centers, call.output_centers)[o] >= result.n_in
          /\ \E j \in 0..(result.n_in - 1) : Stored(result.entries, o - 1, j)
    /\ \E j \in 0..(result.n_in - 1) :
          /\ ColumnSum(result.trans, j, result.n_out) = One
          /\ Cardinality({i \in 0..(result.n_out - 1) : result.trans[i][j] # Zero}) > 1

====
